---- MODULE Spec2Model ----
(***************************************************************************)
(* A model of nfc/tt3.py: the NDEF accessor of a Type 3 Tag (class NDEF),  *)
(* the block read/write commands of class Type3Tag, and the command        *)
(* dispatcher of class Type3TagEmulation.                                  *)
(*                                                                         *)
(* Byte strings are sequences of 0..255.  Python indexes from 0, TLA+ from *)
(* 1: At(s, i) is s[i] of the source.                                      *)
(***************************************************************************)
EXTENDS Integers, Sequences, FiniteSets, TLC

\* ------------------------------------------------------------------ bounds

\* the tag's capacity in data blocks (bytes 3-4 of its attribute block)
CapBlocks == 3
\* the tag advertises nbr and nbw in 0..MaxNb
MaxNb == 3
\* at most this many get/set operations are started on one accessor
MaxOps == 2
\* at most this many commands of one operation are recorded: more are sent
\* only by the chunk loop of a tag that advertises nbr = 0 or nbw = 0
MaxLog == 7

\* ------------------------------------------------------- program constants

\* the size of a block: the 16 of "(length+15)/16", "nb_max * 16", "% 16"
BlockSize == 16
\* attr[9] = 0x0F: writing in progress
WipOn == 15
\* attr[9] = 0x00: writing finished
WipOff == 0
\* chr(len(cmd)+1): a frame's length byte is at most 255
MaxFrame == 255

\* --------------------------------------------------------- Python helpers

\* self._attr = None
None == <<>>

\* s[i]
At(s, i) == s[i + 1]

Min(a, b) == IF a < b THEN a ELSE b

\* s[0:n]
Take(s, n) == SubSeq(s, 1, Min(n, Len(s)))

\* s[n:]  (also what "del s[0:n]" leaves)
Drop(s, n) == SubSeq(s, Min(n, Len(s)) + 1, Len(s))

\* s[a:b]
Slice(s, a, b) == SubSeq(s, Min(a, Len(s)) + 1, Min(b, Len(s)))

\* n * '\x00'
Zeros(n) == [i \in 1..n |-> 0]

\* range(1, n + 1)
Range1(n) == [i \in 1..n |-> i]

RECURSIVE SumSeq(_)
\* sum(s)
SumSeq(s) == IF s = <<>> THEN 0 ELSE s[1] + SumSeq(Tail(s))

\* (length+15)/16: the number of blocks that hold length bytes
NBlocks(length) == (length + 15) \div BlockSize

\* (-len(data) % 16) * '\x00' appended to data
Pad(d) == d \o Zeros((BlockSize - (Len(d) % BlockSize)) % BlockSize)

\* ------------------------------------------------- the attribute block

\* NdefAttributeData.__str__: the 16 bytes of an attribute block
AttrStr(vmajor, vminor, nbr, nbw, capacity, writing, writeable, length) ==
  LET maxb == ((capacity + 15) \div 16) % 65536
      head == << (vmajor * 16 + vminor) % 256, nbr, nbw,
                 maxb \div 256, maxb % 256, 0, 0, 0, 0,
                 IF writing THEN 15 ELSE 0,
                 IF writeable THEN 1 ELSE 0,
                 (length \div 65536) % 256,
                 (length \div 256) % 256,
                 length % 256 >>
      checksum == SumSeq(head)
  IN  head \o << checksum \div 256, checksum % 256 >>

\* sum(attr[0:14]) == attr[14] << 8 | attr[15]
ChecksumOk(attr) ==
  SumSeq(SubSeq(attr, 1, 14)) = At(attr, 14) * 256 + At(attr, 15)

\* NDEF.capacity
Capacity(attr) == (At(attr, 3) * 256 + At(attr, 4)) * 16

\* the writeable flag read the wrong way round
Writeable_inverted(attr) == At(attr, 10) = 0

\* NDEF.writeable
Writeable(attr) == At(attr, 10) # 0

\* attr[1] # Nbr
Nbr(attr) == At(attr, 1)

\* the limit of a write, taken from the limit of a read
Nbw_nbr(attr) == At(attr, 1)

\* attr[2] # blocks to write at once
Nbw(attr) == At(attr, 2)

\* attr[11]*65536 + attr[12]*256 + attr[13]
AttrLength(attr) == At(attr, 11) * 65536 + At(attr, 12) * 256 + At(attr, 13)

\* split2(x)
Split2(x) == << x \div 256, x % 256 >>

\* split3(x)
Split3(x) == << x \div 65536, (x \div 256) % 256, x % 256 >>

\* attr[14:16] = split2(sum(attr[0:14]))
WithChecksum(attr) == SubSeq(attr, 1, 14) \o Split2(SumSeq(SubSeq(attr, 1, 14)))

\* the first edit without the write-in-progress flag
AttrWriteBegin_noflag(attr, d) ==
  WithChecksum(SubSeq(attr, 1, 9) \o << WipOff >> \o << At(attr, 10) >>
               \o Split3(Len(d)) \o SubSeq(attr, 15, 16))

\* the setter's first edit of the attribute block:
\*   attr[9] = 0x0F; attr[11:14] = split3(len(data)); attr[14:16] = ...
AttrWriteBegin(attr, d) ==
  WithChecksum(SubSeq(attr, 1, 9) \o << WipOn >> \o << At(attr, 10) >>
               \o Split3(Len(d)) \o SubSeq(attr, 15, 16))

\* the second edit leaving the write-in-progress flag set
AttrWriteEnd_flagkept(attr) == WithChecksum(attr)

\* the setter's second edit: attr[9] = 0x00; attr[14:16] = ...
AttrWriteEnd(attr) ==
  WithChecksum(SubSeq(attr, 1, 9) \o << WipOff >> \o SubSeq(attr, 11, 16))

\* ----------------------------------------------------------------- the tag

\* The tag is outside the program: a memory of blocks 0..CapBlocks of
\* BlockSize bytes each, block 0 being the attribute block.  It executes a
\* command it accepts atomically.

\* the blocks of message m as the tag stores them, zero blocks after it
TagHolding(attr, m) ==
  [b \in 0..CapBlocks |->
     IF b = 0 THEN attr
     ELSE IF b <= NBlocks(Len(m))
          THEN Slice(Pad(m), (b - 1) * BlockSize, b * BlockSize)
          ELSE Zeros(BlockSize)]

RECURSIVE TagData(_, _)
\* the response data of a read of the blocks blks
TagData(t, blks) ==
  IF blks = <<>> THEN <<>> ELSE t[blks[1]] \o TagData(t, Tail(blks))

RECURSIVE TagStore(_, _, _)
\* the tag after it executed a write of d to the blocks blks
TagStore(t, d, blks) ==
  IF blks = <<>> THEN t
  ELSE TagStore([t EXCEPT ![blks[1]] = Take(d, BlockSize)],
                Drop(d, BlockSize), Tail(blks))

\* the tag has all the blocks blks
TagHas(t, blks) == \A i \in 1..Len(blks) : blks[i] \in DOMAIN t

\* the message the tag's attribute block and data blocks describe
TagMessage(t) ==
  Take(TagData(t, Range1(Min(NBlocks(AttrLength(t[0])), CapBlocks))),
       AttrLength(t[0]))

\* ------------------------------------------------- Type3Tag.read / write

\* the bytes of the block list: 2 for a block number below 256, else 3
BlockListLen(blks) ==
  2 * Cardinality({i \in 1..Len(blks) : blks[i] < 256})
  + 3 * Cardinality({i \in 1..Len(blks) : blks[i] >= 256})

\* len(cmd)+1 of a read command
ReadFrameLen(blks) == 1 + 1 + 8 + 1 + 2 + 1 + BlockListLen(blks)

\* len(cmd)+1 of a write command
WriteFrameLen(d, blks) == ReadFrameLen(blks) + Len(d)

\* one entry of the log of the commands handed to tt3_send_command: the
\* blocks it names, the data it carries (write) or returned (read), and st
Sent(op, blks, d, st) == [op |-> op, blocks |-> blks, data |-> d, st |-> st]

\* Type3Tag.read(blocks): the outcomes the transport and the tag allow.
\*   st: "ok", or why it raised: "value" (chr() of a length above 255),
\*   "send" (tt3_send_command false), "recv" (no response), "data"
\*   (malformed response), "index" (a response that ends before its status
\*   bytes), "cmd" (non-zero status)
\*   sent: the commands handed to tt3_send_command
Type3Tag_read(t, blks) ==
  IF ReadFrameLen(blks) > MaxFrame
  THEN {[st |-> "value", data |-> <<>>, sent |-> <<>>]}
  ELSE {[st |-> st, data |-> IF st = "ok" THEN TagData(t, blks) ELSE <<>>,
         sent |-> << Sent("read", blks,
                          IF st = "ok" THEN TagData(t, blks) ELSE <<>>, st) >>] :
           st \in {s \in {"ok", "send", "recv", "data", "index", "cmd"} :
                     s = "ok" => TagHas(t, blks)}}

\* Type3Tag.write(data, blocks): the outcomes the transport and the tag
\* allow; tag is the tag afterwards.  A command whose response is lost or
\* malformed may or may not have been executed by the tag.
Type3Tag_write(t, d, blks) ==
  IF Len(d) # Len(blks) * 16 \/ WriteFrameLen(d, blks) > MaxFrame
  THEN {[st |-> "value", tag |-> t, sent |-> <<>>]}
  ELSE {[st |-> o[1], tag |-> IF o[2] THEN TagStore(t, d, blks) ELSE t,
         sent |-> << Sent("write", blks, d, o[1]) >>] :
           o \in {x \in {"ok", "send", "recv", "data", "index", "cmd"}
                         \X BOOLEAN :
                    /\ x[1] = "ok" => x[2] /\ TagHas(t, blks)
                    /\ x[1] \in {"send", "cmd"} => ~x[2]
                    /\ x[2] => TagHas(t, blks)}}

\* --------------------------------------------------------------- the state

VARIABLES
  tag,      \* the tag's blocks
  _attr,    \* NDEF._attr: the cached attribute block, or None
  pc,       \* where the accessor is: "new", "dead", "idle", or inside an operation
  data,     \* message.setter: data;  message getter: data
  blocks,   \* blocks: the block numbers still to transfer
  nb_max,   \* nb_max
  offset,   \* message.setter: offset
  length,   \* getter: length;  setter: length
  log,      \* the commands handed to tt3_send_command by the current operation
  res,      \* the current operation and how it ended; turn flips with
            \* every turn of its loop
  prev,     \* the message of the operation before, if it was a set that returned
  hist,     \* the tag's first message and the messages the setter accepted
  nops,     \* the number of operations started
  cmd,      \* Type3TagEmulation.cmd: the command to answer, or None
  req,      \* the lists and the payload the command in cmd was built from
  rsp,      \* the frames handed to tt3_send_response for the last command
  calls,    \* the callbacks invoked for the last command, in order
  raised,   \* send_response raised on the command in cmd
  seen,     \* a read or write command was received
  io        \* the last call of Type3Tag.read, Type3Tag.write or the codec

\* the accessor, its tag and what is recorded of them
ndef == << tag, _attr, pc, data, blocks, nb_max, offset, length, log, res,
           prev, hist, nops >>

\* the emulation and what is recorded of it
emu == << cmd, req, rsp, calls, raised, seen >>

vars == << ndef, emu, io >>

\* ------------------------------------------------------------- the inputs

\* a message of n bytes, none of them zero, that shares no byte at any
\* position with a message of another length or seed
Msg(n, seed) == [i \in 1..n |-> ((n * 7 + seed * 101 + i) % 255) + 1]

\* the lengths of the messages given to the setter: empty, one block, one
\* byte more, the whole capacity, and one byte beyond it; Msgs has two
\* messages of one length
MsgLens == {0, BlockSize, BlockSize + 1,
            CapBlocks * BlockSize, CapBlocks * BlockSize + 1}

Msgs == {Msg(n, 1) : n \in MsgLens} \cup {Msg(BlockSize + 1, 2)}

\* the messages a tag holds at first
FirstMsgs == {<<>>, Msg(2 * BlockSize + 1, 3)}

\* no operation yet
NoRes == [op |-> "none", st |-> "none", err |-> "", val |-> <<>>,
          cached |-> FALSE, turn |-> FALSE]

\* an attribute block whose checksum is one off
BadChecksum(attr) ==
  SubSeq(attr, 1, 15) \o << (At(attr, 15) + 1) % 256 >>

\* no command was received
NoReq == [code |-> 0, idm |-> <<>>, svcs |-> <<>>, ents |-> <<>>,
          payload |-> <<>>, cut |-> 0, fail |-> 0]

\* no call yet
NoIo == [op |-> "none"]

\* the emulation before its first command
EmuInit ==
  /\ cmd = None
  /\ req = NoReq
  /\ rsp = <<>>
  /\ calls = <<>>
  /\ raised = FALSE
  /\ seen = FALSE

\* a tag before the accessor is constructed on it
NdefInit ==
  /\ \E nbr \in 0..MaxNb, nbw \in 0..MaxNb, w \in BOOLEAN, m \in FirstMsgs,
        good \in BOOLEAN :
       LET attr == AttrStr(1, 0, nbr, nbw, CapBlocks * BlockSize, FALSE, w,
                           Len(m))
       IN  /\ tag = TagHolding(IF good THEN attr ELSE BadChecksum(attr), m)
           /\ hist = {m}
  /\ _attr = None
  /\ pc = "new"
  /\ data = <<>>
  /\ blocks = <<>>
  /\ nb_max = 0
  /\ offset = 0
  /\ length = 0
  /\ log = <<>>
  /\ res = NoRes
  /\ prev = <<>>
  /\ nops = 0

Init ==
  /\ NdefInit
  /\ EmuInit
  /\ io = NoIo

\* the locals of an operation that returned or raised
NoLocals ==
  /\ data' = <<>>
  /\ blocks' = <<>>
  /\ nb_max' = 0
  /\ offset' = 0
  /\ length' = 0

\* the failure is ignored: the operation goes on where it was
Raise_retry(err) ==
  UNCHANGED << pc, res, data, blocks, nb_max, offset, length >>

\* the operation raises
Raise(err) ==
  /\ pc' = "idle"
  /\ res' = [res EXCEPT !.st = "err", !.err = err]
  /\ NoLocals

\* ------------------------------------------------------------ NDEF.attr

\* the property NDEF.attr: the cached block, or block 0 read from the tag
\* and cached; a checksum error is logged, nothing else
Attr(cached, t) ==
  IF cached # None
  THEN {[st |-> "ok", attr |-> cached, sent |-> <<>>]}
  ELSE {[st |-> r.st, attr |-> IF r.st = "ok" THEN r.data ELSE None,
         sent |-> r.sent] : r \in Type3Tag_read(t, << 0 >>)}

\* NDEF.__init__: reads the attribute block and raises on a checksum
\* error; Type3Tag.__init__ then has no NDEF accessor
Construct ==
  /\ pc = "new"
  /\ UNCHANGED << emu, io >>
  /\ \E a \in Attr(None, tag) :
       /\ log' = a.sent
       /\ IF a.st = "ok" /\ ChecksumOk(a.attr)
          THEN /\ _attr' = a.attr
               /\ pc' = "idle"
          ELSE /\ _attr' = None
               /\ pc' = "dead"
  /\ UNCHANGED << tag, data, blocks, nb_max, offset, length, res, prev, hist,
                  nops >>

\* an operation starts: what the last one left is forgotten
Start ==
  /\ pc = "idle"
  /\ nops < MaxOps
  /\ nops' = nops + 1
  /\ prev' = IF res.op = "set" /\ res.st = "ok" THEN << res.val >> ELSE <<>>

\* ---------------------------------------------------- NDEF.message, getter

\* blocks[0:nb_max], the blocks of one request
Chunk(blks, nb) == Take(blks, nb)

\* the data as read, whole blocks
Truncate_whole(d, n) == d

\* data[0:length]
Truncate(d, n) == Take(d, n)

\* the getter up to its loop: length, blocks, nb_max, data
GetBegin ==
  /\ Start
  /\ UNCHANGED << emu, io >>
  /\ \E a \in Attr(_attr, tag) :
       LET r == [op |-> "get", st |-> "run", err |-> "", val |-> <<>>,
                 cached |-> _attr # None, turn |-> FALSE]
       IN
       /\ log' = a.sent
       /\ _attr' = a.attr
       /\ IF a.st # "ok"
          THEN /\ pc' = "idle"
               /\ res' = [r EXCEPT !.st = "err", !.err = a.st]
               /\ NoLocals
          ELSE /\ pc' = "get_loop"
               /\ res' = r
               /\ length' = AttrLength(a.attr)
               /\ blocks' = Range1(NBlocks(AttrLength(a.attr)))
               /\ nb_max' = Nbr(a.attr)
               /\ data' = <<>>
               /\ offset' = 0
  /\ UNCHANGED << tag, hist >>

\* the log with the commands of one more call, as long as it has fewer
\* than MaxLog entries: only a loop that does not end sends that many
Logged(l, sent) == IF Len(l) < MaxLog THEN l \o sent ELSE l

\* one turn of "while len(blocks) > nb_max"
GetLoop ==
  /\ pc = "get_loop"
  /\ Len(blocks) > nb_max
  /\ UNCHANGED << emu, io >>
  /\ \E r \in Type3Tag_read(tag, Chunk(blocks, nb_max)) :
       /\ log' = Logged(log, r.sent)
       /\ IF r.st # "ok"
          THEN Raise(r.st)
          ELSE /\ data' = data \o r.data
               /\ blocks' = Drop(blocks, nb_max)
               /\ res' = [res EXCEPT !.turn = ~@]
               /\ UNCHANGED << pc, nb_max, offset, length >>
  /\ UNCHANGED << tag, _attr, prev, hist, nops >>

\* after the loop: the last request, self._attr = None, return data[0:length]
GetTail ==
  /\ pc = "get_loop"
  /\ Len(blocks) <= nb_max
  /\ UNCHANGED << emu, io >>
  /\ \E r \in IF Len(blocks) > 0
              THEN Type3Tag_read(tag, blocks)
              ELSE {[st |-> "ok", data |-> <<>>, sent |-> <<>>]} :
       /\ log' = log \o r.sent
       /\ IF r.st # "ok"
          THEN Raise(r.st) /\ UNCHANGED _attr
          ELSE /\ _attr' = None
               /\ pc' = "idle"
               /\ res' = [res EXCEPT !.st = "ok",
                                     !.val = Truncate(data \o r.data, length)]
               /\ NoLocals
  /\ UNCHANGED << tag, prev, hist, nops >>

\* ---------------------------------------------------- NDEF.message, setter

\* the setter's checks: self.writeable, len(data) > self.capacity
SetBegin ==
  /\ Start
  /\ UNCHANGED << emu, io >>
  /\ \E d \in Msgs, a \in Attr(_attr, tag) :
       LET r == [op |-> "set", st |-> "err", err |-> "", val |-> d,
                 cached |-> _attr # None, turn |-> FALSE]
       IN
       /\ log' = a.sent
       /\ _attr' = a.attr
       /\ IF a.st # "ok"
          THEN /\ pc' = "idle" /\ res' = [r EXCEPT !.err = a.st]
               /\ NoLocals /\ UNCHANGED hist
          ELSE IF ~Writeable(a.attr)
          THEN /\ pc' = "idle" /\ res' = [r EXCEPT !.err = "disabled"]
               /\ NoLocals /\ UNCHANGED hist
          ELSE IF Len(d) > Capacity(a.attr)
          THEN /\ pc' = "idle" /\ res' = [r EXCEPT !.err = "capacity"]
               /\ NoLocals /\ UNCHANGED hist
          ELSE /\ pc' = "set_attr"
               /\ res' = [r EXCEPT !.st = "run"]
               /\ data' = d
               /\ hist' = hist \cup {d}
               /\ UNCHANGED << blocks, nb_max, offset, length >>
  /\ UNCHANGED tag

\* the first write of block 0: the cached block is edited in place and
\* written; then blocks, nb_max, length, offset
SetAttr ==
  /\ pc = "set_attr"
  /\ UNCHANGED << emu, io >>
  /\ LET attr == AttrWriteBegin(_attr, data) IN
     /\ _attr' = attr
     /\ \E w \in Type3Tag_write(tag, attr, << 0 >>) :
          /\ tag' = w.tag
          /\ log' = log \o w.sent
          /\ IF w.st # "ok"
             THEN Raise(w.st)
             ELSE /\ pc' = "set_loop"
                  /\ blocks' = Range1(NBlocks(Len(data)))
                  /\ nb_max' = Nbw(attr)
                  /\ length' = Nbw(attr) * 16
                  /\ offset' = 0
                  /\ UNCHANGED << data, res >>
  /\ UNCHANGED << prev, hist, nops >>

\* one turn of "while len(blocks) > nb_max"
SetLoop ==
  /\ pc = "set_loop"
  /\ Len(blocks) > nb_max
  /\ UNCHANGED << emu, io >>
  /\ \E w \in Type3Tag_write(tag, Slice(data, offset, offset + length),
                             Chunk(blocks, nb_max)) :
       /\ tag' = w.tag
       /\ log' = Logged(log, w.sent)
       /\ IF w.st # "ok"
          THEN Raise(w.st)
          ELSE /\ blocks' = Drop(blocks, nb_max)
               /\ offset' = offset + length
               /\ res' = [res EXCEPT !.turn = ~@]
               /\ UNCHANGED << pc, data, nb_max, length >>
  /\ UNCHANGED << _attr, prev, hist, nops >>

\* after the loop: the rest of the data, padded
SetTail ==
  /\ pc = "set_loop"
  /\ Len(blocks) <= nb_max
  /\ UNCHANGED << emu, io >>
  /\ \E w \in IF Len(blocks) > 0
              THEN Type3Tag_write(tag, Drop(Pad(data), offset), blocks)
              ELSE {[st |-> "ok", tag |-> tag, sent |-> <<>>]} :
       /\ tag' = w.tag
       /\ log' = log \o w.sent
       /\ IF w.st # "ok"
          THEN Raise(w.st)
          ELSE /\ pc' = "set_end"
               /\ data' = IF Len(blocks) > 0 THEN Pad(data) ELSE data
               /\ UNCHANGED << res, blocks, nb_max, offset, length >>
  /\ UNCHANGED << _attr, prev, hist, nops >>

\* the second write of block 0, and self._attr = None
SetEnd ==
  /\ pc = "set_end"
  /\ UNCHANGED << emu, io >>
  /\ LET attr == AttrWriteEnd(_attr) IN
     \E w \in Type3Tag_write(tag, attr, << 0 >>) :
       /\ tag' = w.tag
       /\ log' = log \o w.sent
       /\ IF w.st # "ok"
          THEN Raise(w.st) /\ _attr' = attr
          ELSE /\ _attr' = None
               /\ pc' = "idle"
               /\ res' = [res EXCEPT !.st = "ok"]
               /\ NoLocals
  /\ UNCHANGED << prev, hist, nops >>

\* ------------------------------------------------------ the specification

Next ==
  \/ Construct
  \/ GetBegin
  \/ GetLoop
  \/ GetTail
  \/ SetBegin
  \/ SetAttr
  \/ SetLoop
  \/ SetTail
  \/ SetEnd

Spec == Init /\ [][Next]_vars

\* the transport answers every command of the step: the command is sent
\* and a well-formed response comes back, with a status that is zero or not
Answered == \A i \in 1..Len(log') : log'[i].st \in {"ok", "cmd"}

NextFair ==
  \/ Construct /\ Answered
  \/ GetBegin /\ Answered
  \/ GetLoop /\ Answered
  \/ GetTail /\ Answered
  \/ SetBegin /\ Answered
  \/ SetAttr /\ Answered
  \/ SetLoop /\ Answered
  \/ SetTail /\ Answered
  \/ SetEnd /\ Answered

\* the accessor with a transport that answers every command; an operation
\* goes on as long as it has a step to take
SpecFair == Init /\ [][NextFair]_vars /\ WF_vars(NextFair)

\* The tag is rewritten by another device while the accessor is between
\* two operations: its attribute block no longer satisfies its checksum.
TagModified ==
  /\ pc = "idle"
  /\ ChecksumOk(tag[0])
  /\ UNCHANGED << emu, io >>
  /\ tag' = [tag EXCEPT ![0] = BadChecksum(@)]
  /\ UNCHANGED << _attr, pc, data, blocks, nb_max, offset, length, log, res,
                  prev, hist, nops >>

NextEnv ==
  \/ Next
  \/ TagModified

\* the accessor and a tag that other devices write too
SpecEnv == Init /\ [][NextEnv]_vars

\* ------------------------------------------------- Type3TagEmulation

\* at most this many service codes in a command's service list
MaxSvc == 2
\* at most this many entries in a command's block list
MaxEnt == 3

\* self.idm
Idm == << 1, 2, 3, 4, 5, 6, 7, 8 >>

\* self.pmm
Pmm == << 1, 1, 2, 2, 3, 3, 4, 4 >>

\* self.sc, the default "\x12\xFC"
Sc == << 18, 252 >>

\* self.services.keys(): the application registered the services
\* ndef_read_service and ndef_write_service with add_service
services == {11, 9}

\* the data the read callback of a service returns for a block
BlockData(code, block) == [j \in 1..BlockSize |-> (code + block + j) % 256]

\* 1<<(i%8)
Bit(i) == 2 ^ (i % 8)

\* the status of a wrong service code
UnknownService_A2 == << 255, 162 >>

\* bytearray([255, 0xA1])
UnknownService == << 255, 161 >>

\* cmd_data[1] << 8 | cmd_data[0]
ServiceCode(cd) == At(cd, 1) * 256 + At(cd, 0)

\* what a handler comes to: st is "ok" (go on), "rsp" (it returned rsp) or
\* "raise" (an IndexError left it)
Returned(r) == [st |-> "rsp", rsp |-> r]
Raised == [st |-> "raise", rsp |-> <<>>]

RECURSIVE ServiceList(_, _, _)
\* "for i in range(len(service_list))" over the service codes: sl is the
\* service codes read so far, n the number still to read
ServiceList(cd, n, sl) ==
  IF n = 0 THEN [st |-> "ok", sl |-> sl, cd |-> cd]
  ELSE IF Len(cd) < 2 THEN Raised
  ELSE IF ServiceCode(cd) \notin services THEN Returned(UnknownService)
  ELSE ServiceList(Drop(cd, 2), n - 1, Append(sl, ServiceCode(cd)))

RECURSIVE BlockList(_, _, _, _, _, _)
\* "for i in range(len(service_block_list))": sl is the service codes,
\* cnt[k] is service_list[k][1], sbl the entries read so far
BlockList(cd, n, i, sl, cnt, sbl) ==
  IF i = n THEN [st |-> "ok", cnt |-> cnt, sbl |-> sbl, cd |-> cd]
  ELSE IF cd = <<>> \/ At(cd, 0) % 16 >= Len(sl)
  THEN Returned(<< Bit(i), 163 >>)
  ELSE LET k == At(cd, 0) % 16
           cnt2 == [cnt EXCEPT ![k + 1] = @ + 1]
       IN  IF At(cd, 0) >= 128
           THEN IF Len(cd) < 2 THEN Raised
                ELSE BlockList(Drop(cd, 2), n, i + 1, sl, cnt2,
                               Append(sbl, [code |-> At(sl, k),
                                            block |-> At(cd, 1)]))
           ELSE IF Len(cd) < 3 THEN Raised
                ELSE BlockList(Drop(cd, 3), n, i + 1, sl, cnt2,
                               Append(sbl, [code |-> At(sl, k),
                                            block |-> At(cd, 2) * 256
                                                      + At(cd, 1)]))

\* dict(service_list): for each service code, the count of the last entry
\* of the service list that has this code
ServiceBlockCount(sl, cnt) ==
  [c \in {sl[k] : k \in 1..Len(sl)} |->
     cnt[CHOOSE k \in 1..Len(sl) :
           sl[k] = c /\ \A j \in (k + 1)..Len(sl) : sl[j] # c]]

\* the service list and the block list of a command: the part that
\* read_without_encryption and write_without_encryption share
Lists(cmd_data) ==
  IF cmd_data = <<>> THEN Raised
  ELSE LET s == ServiceList(Tail(cmd_data), cmd_data[1], <<>>) IN
    IF s.st # "ok" THEN s
    ELSE IF s.cd = <<>> THEN Raised
    ELSE LET b == BlockList(Tail(s.cd), s.cd[1], 0, s.sl,
                            [k \in 1..Len(s.sl) |-> 0], <<>>)
         IN  IF b.st # "ok" THEN b
             ELSE [st |-> "ok", sbl |-> b.sbl, cd |-> b.cd,
                   count |-> ServiceBlockCount(s.sl, b.cnt)]

\* one invocation of a callback
Call(op, item, d, begin, end) ==
  [op |-> op, code |-> item.code, block |-> item.block, data |-> d,
   begin |-> begin, end |-> end]

RECURSIVE ReadLoop(_, _, _, _, _, _, _)
\* "for i, service_block_list_item in enumerate(service_block_list)" of
\* read_without_encryption: total is the block_count of the entries, count
\* the running service_block_count; the callback invoked for entry fail
\* (counted from 1) returns None
ReadLoop(sbl, i, total, count, fail, cs, block_data) ==
  IF i = Len(sbl) THEN [st |-> "rsp", calls |-> cs,
                        rsp |-> << 0, 0, Len(block_data) \div 16 >>
                                \o block_data]
  ELSE LET item == At(sbl, i)
           rb == total[item.code] = count[item.code]
           count2 == [count EXCEPT ![item.code] = @ - 1]
           re == count2[item.code] = 0
           cs2 == Append(cs, Call("read", item, <<>>, rb, re))
       IN  IF fail = i + 1
           THEN [st |-> "rsp", calls |-> cs2, rsp |-> << Bit(i), 162, 0 >>]
           ELSE ReadLoop(sbl, i + 1, total, count2, fail, cs2,
                         block_data \o BlockData(item.code, item.block))

\* read_without_encryption(cmd_data)
read_without_encryption(cmd_data, fail) ==
  LET l == Lists(cmd_data) IN
    IF l.st # "ok" THEN [st |-> l.st, rsp |-> l.rsp, calls |-> <<>>]
    ELSE ReadLoop(l.sbl, 0, l.count, l.count, fail, <<>>, <<>>)

RECURSIVE WriteLoop(_, _, _, _, _, _, _)
\* the same loop of write_without_encryption; the callback invoked for
\* entry fail returns False
WriteLoop(sbl, i, total, count, fail, cs, block_data) ==
  IF i = Len(sbl) THEN [st |-> "rsp", calls |-> cs, rsp |-> << 0, 0 >>]
  ELSE LET item == At(sbl, i)
           wb == total[item.code] = count[item.code]
           count2 == [count EXCEPT ![item.code] = @ - 1]
           we == count2[item.code] = 0
           cs2 == Append(cs, Call("write", item,
                                  Slice(block_data, i * 16, (i + 1) * 16),
                                  wb, we))
       IN  IF fail = i + 1
           THEN [st |-> "rsp", calls |-> cs2, rsp |-> << Bit(i), 162, 0 >>]
           ELSE WriteLoop(sbl, i + 1, total, count2, fail, cs2, block_data)

\* the payload taken as whole blocks whatever its length
WholeBlocks_any(block_data) == TRUE

\* len(block_data) % 16 != 0 is false
WholeBlocks(block_data) == Len(block_data) % 16 = 0

\* write_without_encryption(cmd_data)
write_without_encryption(cmd_data, fail) ==
  LET l == Lists(cmd_data) IN
    IF l.st # "ok" THEN [st |-> l.st, rsp |-> l.rsp, calls |-> <<>>]
    ELSE IF ~WholeBlocks(l.cd)
    THEN [st |-> "rsp", rsp |-> << 255, 162 >>, calls |-> <<>>]
    ELSE WriteLoop(l.sbl, 0, l.count, l.count, fail, <<>>, l.cd)

\* polling(cmd_data)
polling(cmd_data) ==
  IF Len(cmd_data) < 3 THEN Raised
  ELSE Returned(IF At(cmd_data, 2) = 1 THEN Idm \o Pmm \o Sc
                                       ELSE Idm \o Pmm)

\* bytearray([10 + len(rsp), code]) + self.idm + rsp, which raises a
\* ValueError for a length above 255
Response(code, r) ==
  IF r.st # "rsp" THEN [st |-> r.st, frames |-> <<>>, calls |-> r.calls]
  ELSE IF 10 + Len(r.rsp) > MaxFrame
  THEN [st |-> "raise", frames |-> <<>>, calls |-> r.calls]
  ELSE [st |-> "rsp", calls |-> r.calls,
        frames |-> << << 10 + Len(r.rsp), code >> \o Idm \o r.rsp >>]

\* send_response() on the command c: the frames handed to
\* tt3_send_response, the callbacks invoked, and whether it raised
send_response(c, fail) ==
  LET none == [st |-> "rsp", frames |-> <<>>, calls |-> <<>>]
      p == IF Take(c, 4) \in {<< 6, 0, 255, 255 >>, << 6, 0 >> \o Sc}
           THEN LET r == polling(Drop(c, 2)) IN
                  IF r.st = "raise" THEN [none EXCEPT !.st = "raise"]
                  ELSE [none EXCEPT
                          !.frames = << << 2 + Len(r.rsp), 1 >> \o r.rsp >>]
           ELSE none
  IN  IF p.st = "raise" \/ Len(c) < 2 THEN [none EXCEPT !.st = "raise"]
      ELSE IF At(c, 1) = 4 /\ Slice(c, 2, 10) = Idm
      THEN Response(5, [st |-> "rsp", rsp |-> << 0 >>, calls |-> <<>>])
      ELSE IF At(c, 1) = 6 /\ Slice(c, 2, 10) = Idm
      THEN Response(7, read_without_encryption(Drop(c, 10), fail))
      ELSE IF At(c, 1) = 8 /\ Slice(c, 2, 10) = Idm
      THEN Response(9, write_without_encryption(Drop(c, 10), fail))
      ELSE IF At(c, 1) = 12 /\ Slice(c, 2, 10) = Idm
      THEN Response(13, [st |-> "rsp", rsp |-> << 1 >> \o Sc,
                         calls |-> <<>>])
      ELSE p

\* ------------------------------------------- the commands of a reader

\* at most this many bytes are missing at the end of a read command
MaxCut == 1

\* a service code the application did not register
Unregistered == 153

\* the identifier of another tag
OtherIdm == << 8, 7, 6, 5, 4, 3, 2, 1 >>

\* "%02X%02X" % (service%256, service/256): a service code on the wire
EncService(code) == << code % 256, code \div 256 >>

\* the element of three bytes with the high byte of the number first
EncBlock_highfirst(e) ==
  IF e.block < 256 THEN << 128 + e.idx, e.block >>
  ELSE << e.idx, e.block \div 256, e.block % 256 >>

\* a block list element as Type3Tag.read and Type3Tag.write encode it, with
\* the index idx of its service in the service list
EncBlock(e) ==
  IF e.block < 256 THEN << 128 + e.idx, e.block >>
  ELSE << e.idx, e.block % 256, e.block \div 256 >>

RECURSIVE Flat(_)
\* the concatenation of a sequence of byte strings
Flat(ss) == IF ss = <<>> THEN <<>> ELSE ss[1] \o Flat(Tail(ss))

\* the bytes after the identifier of a read or write command
CmdData(r) ==
  << Len(r.svcs) >> \o Flat([k \in 1..Len(r.svcs) |-> EncService(r.svcs[k])])
  \o << Len(r.ents) >> \o Flat([k \in 1..Len(r.ents) |-> EncBlock(r.ents[k])])
  \o r.payload

\* the command frame of r, its last r.cut bytes missing
Frame(r) ==
  LET body == CmdData(r)
      kept == Take(body, Len(body) - r.cut)
  IN  << 10 + Len(kept), r.code >> \o r.idm \o kept

\* the payload of a write command
Payload(n) == [j \in 1..n |-> (j * 3) % 256]

\* the payload lengths tried for a write of n blocks: as many blocks, one
\* block less, one byte more
PayloadLens(n) ==
  {16 * n, 16 * n + 1} \cup (IF n > 0 THEN {16 * (n - 1)} ELSE {})

\* the frames without lists: polling for any and for this system code,
\* request-response, request-system-code, an unknown command, commands for
\* another tag, a frame of one byte, an empty frame, a wrong length byte
PlainFrames ==
  { << 6, 0, 255, 255, 1, 0 >>,
    << 6, 0 >> \o Sc \o << 0, 0 >>,
    << 10, 4 >> \o Idm,
    << 10, 12 >> \o Idm,
    << 10, 2 >> \o Idm,
    << 10, 4 >> \o OtherIdm,
    << 16, 6 >> \o OtherIdm \o << 1, 11, 0, 1, 128, 1 >>,
    << 1 >>,
    <<>>,
    << 11, 4 >> \o Idm }

\* the least number of blocks whose read response, 13 bytes and 16 for
\* each block, is longer than a frame can be
FullRead == (MaxFrame - 13) \div BlockSize + 1

\* a read command naming the blocks 1..FullRead of the service 0x000B
LongRead ==
  [code |-> 6, idm |-> Idm, svcs |-> << 11 >>, cut |-> 0, fail |-> 0,
   payload |-> <<>>, ents |-> [k \in 1..FullRead |-> [idx |-> 0, block |-> k]]]

\* wait_command with the transport returning the frame got (a sequence of
\* no frame, None, or of one frame) built from the request r
Wait(got, r, lists) ==
  /\ cmd = None
  /\ cmd' = IF got # None /\ got[1] # <<>> /\ Len(got[1]) # got[1][1]
            THEN None
            ELSE got
  /\ req' = r
  /\ rsp' = <<>>
  /\ calls' = <<>>
  /\ raised' = FALSE
  /\ seen' = (seen \/ lists)
  /\ UNCHANGED << ndef, io >>

\* wait_command(timeout): the transport times out or returns a frame.  A
\* run is any number of frames without lists, or one read or write command
\* as the first frame and timeouts after it; the command is one of the
\* small ones, or the long read.
wait_command ==
  \/ Wait(None, NoReq, FALSE)
  \/ /\ ~seen
     /\ \E f \in PlainFrames :
          Wait(<< f >>, [NoReq EXCEPT !.code = IF Len(f) > 1 THEN f[2] ELSE 0,
                                      !.idm = Slice(f, 2, 10)], FALSE)
  \/ /\ ~seen
     /\ req = NoReq
     /\ \E c \in {6, 8}, m \in 0..MaxSvc, n \in 0..MaxEnt :
         \E sv \in [1..m -> services \cup {Unregistered}],
            ix \in [1..n -> 0..m], far \in {0, n},
            x \in IF c = 6 THEN (0..MaxCut) \X {0}
                           ELSE {0} \X PayloadLens(n) :
           LET r == [code |-> c, idm |-> Idm, svcs |-> sv, cut |-> x[1],
                     fail |-> 0, payload |-> Payload(x[2]),
                     ents |-> [k \in 1..n |->
                                 [idx |-> ix[k],
                                  block |-> IF k = far THEN 256 + k ELSE k]]]
           IN  Wait(<< Frame(r) >>, r, TRUE)
  \/ /\ ~seen
     /\ req = NoReq
     /\ Wait(<< Frame(LongRead) >>, LongRead, TRUE)

\* send_response(), called when wait_command returned a command; the
\* callback invoked for entry fail of the block list refuses
SendResponse ==
  /\ cmd # None
  /\ cmd[1] # <<>>
  /\ \E fail \in 0..Len(req.ents) :
       \E r \in {send_response(cmd[1], fail)} :
         /\ req' = [req EXCEPT !.fail = fail]
         /\ rsp' = r.frames
         /\ calls' = r.calls
         /\ raised' = (r.st = "raise")
         /\ cmd' = IF r.st = "raise" THEN cmd ELSE None
  /\ UNCHANGED << ndef, seen, io >>

\* no accessor: the emulation alone
NdefOff ==
  /\ tag = TagHolding(AttrStr(1, 0, 1, 1, CapBlocks * BlockSize, FALSE, TRUE,
                              0), <<>>)
  /\ _attr = None
  /\ pc = "dead"
  /\ data = <<>>
  /\ blocks = <<>>
  /\ nb_max = 0
  /\ offset = 0
  /\ length = 0
  /\ log = <<>>
  /\ res = NoRes
  /\ prev = <<>>
  /\ hist = {}
  /\ nops = 0

InitEmu ==
  /\ NdefOff
  /\ EmuInit
  /\ io = NoIo

NextEmu ==
  \/ wait_command
  \/ SendResponse

\* the emulation and the commands of a reader
SpecEmu == InitEmu /\ [][NextEmu]_vars

\* ------------------------------------- Type3Tag.read / write, byte by byte

\* at most this many blocks in the block list of a call
MaxList == 2

\* the block numbers of a call: the ends of both encodings
BlockNumbers == {0, 1, 255, 256, 65535}

\* the block lists of a call
BlockLists == UNION {[1..n -> BlockNumbers] : n \in 0..MaxList}

\* cmd: the code, self.idm, one service code, the block list
ReaderCmd(code, blks, service) ==
  << code >> \o Idm \o << 1 >> \o EncService(service) \o << Len(blks) >>
  \o Flat([k \in 1..Len(blks) |-> EncBlock([idx |-> 0, block |-> blks[k]])])

\* the checks of a response: resp is None or a sequence of one frame; the
\* result is "ok" or why the call raised: "recv" (IOError, no response),
\* "value" (chr() of a length above 255), "data" (IOError, malformed),
\* "index" (IndexError, no byte 10 or 11), "cmd" (IOError, status)
Check(code, resp) ==
  IF resp = None THEN "recv"
  ELSE IF Len(resp[1]) > MaxFrame THEN "value"
  ELSE IF Take(resp[1], 10) # << Len(resp[1]), code >> \o Idm THEN "data"
  ELSE IF Len(resp[1]) < 12 THEN "index"
  ELSE IF At(resp[1], 10) # 0 \/ At(resp[1], 11) # 0 THEN "cmd"
  ELSE "ok"

\* what a call comes to: st, the data returned, the frames handed to
\* tt3_send_command and the number of calls of tt3_recv_response
Outcome(st, out, sent, recvs) ==
  [st |-> st, out |-> out, sent |-> sent, recvs |-> recvs]

\* Type3Tag.read(blocks, service) with tt3_send_command returning send and
\* tt3_recv_response returning resp
ReadCall(blks, service, send, resp) ==
  LET c == ReaderCmd(6, blks, service) IN
    IF Len(c) + 1 > MaxFrame THEN Outcome("value", <<>>, <<>>, 0)
    ELSE IF ~send THEN Outcome("send", <<>>, << << Len(c) + 1 >> \o c >>, 0)
    ELSE Outcome(Check(7, resp),
                 IF Check(7, resp) = "ok" THEN Drop(resp[1], 13) ELSE <<>>,
                 << << Len(c) + 1 >> \o c >>, 1)

\* the length of the data not compared with the number of blocks
LengthOk_any(d, blks) == TRUE

\* len(data) != len(blocks) * 16 is false
LengthOk(d, blks) == Len(d) = Len(blks) * 16

\* Type3Tag.write(data, blocks, service), likewise
WriteCall(d, blks, service, send, resp) ==
  LET c == ReaderCmd(8, blks, service) \o d IN
    IF ~LengthOk(d, blks) \/ Len(c) + 1 > MaxFrame
    THEN Outcome("value", <<>>, <<>>, 0)
    ELSE IF ~send THEN Outcome("send", <<>>, << << Len(c) + 1 >> \o c >>, 0)
    ELSE Outcome(Check(9, resp), <<>>, << << Len(c) + 1 >> \o c >>, 1)

\* the response a tag sends to a command that it executed: tail is the
\* block count and the data of a read, and empty for a write
Good(code, tail) == << 12 + Len(tail), code >> \o Idm \o << 0, 0 >> \o tail

\* what tt3_recv_response may return for a command with the response code
\* code: nothing, the good response, and responses with one thing wrong:
\* empty, the length byte, the code, the identifier, a status byte, or cut
\* after the identifier or after the first status byte
Responses(code, tail) ==
  {None} \cup
  {<< r >> : r \in
     { <<>>,
       Good(code, tail),
       << 13 + Len(tail) >> \o Tail(Good(code, tail)),
       << 12 + Len(tail), 16 - code >> \o Idm \o << 0, 0 >> \o tail,
       << 12 + Len(tail), code >> \o OtherIdm \o << 0, 0 >> \o tail,
       << 12 + Len(tail), code >> \o Idm \o << 1, 0 >> \o tail,
       << 12 + Len(tail), code >> \o Idm \o << 0, 1 >> \o tail,
       << 12, code >> \o Idm \o << 255, 161 >>,
       << 12, code >> \o Idm \o << 0, 0 >>,
       << 11, code >> \o Idm \o << 0 >>,
       << 11, code >> \o Idm \o << 1 >>,
       << 10, code >> \o Idm }}

\* a call of Type3Tag.read, the first of a run
ReadBlocks ==
  /\ io = NoIo
  /\ \E blks \in BlockLists, service \in services, send \in BOOLEAN :
       \E resp \in Responses(7, << Len(blks) >> \o Payload(16 * Len(blks))) :
         io' = [op |-> "read", code |-> 7, blocks |-> blks, data |-> <<>>,
                service |-> service,
                send |-> send, resp |-> resp,
                got |-> ReadCall(blks, service, send, resp)]
  /\ UNCHANGED << ndef, emu >>

\* the lengths of the data of a write of n blocks: as many blocks, one
\* byte less or more, one block less or more
DataLens(n) ==
  {x \in {16 * n - 16, 16 * n - 1, 16 * n, 16 * n + 1, 16 * n + 16} : x >= 0}

\* a call of Type3Tag.write, the first of a run
WriteBlocks ==
  /\ io = NoIo
  /\ \E blks \in BlockLists, service \in services, send \in BOOLEAN :
       \E n \in DataLens(Len(blks)), resp \in Responses(9, <<>>) :
         io' = [op |-> "write", code |-> 9, blocks |-> blks,
                data |-> Payload(n), service |-> service, send |-> send,
                resp |-> resp,
                got |-> WriteCall(Payload(n), blks, service, send, resp)]
  /\ UNCHANGED << ndef, emu >>

\* the length taken from its two low bytes
DataLength_short(attr) == At(attr, 12) * 256 + At(attr, 13)

\* attr[11]<<16 | attr[12]<<8 | attr[13]
DataLength(attr) == At(attr, 11) * 65536 + At(attr, 12) * 256 + At(attr, 13)

\* NdefAttributeData.__init__(attr): the fields read from 16 bytes; the
\* version "major.minor" is kept as its two numbers
NdefAttributeData(attr) ==
  [vmajor |-> At(attr, 0) \div 16,
   vminor |-> At(attr, 0) % 16,
   nbr |-> At(attr, 1),
   nbw |-> At(attr, 2),
   capacity |-> (At(attr, 3) * 256 + At(attr, 4)) * 16,
   writing |-> At(attr, 9) # 0,
   writeable |-> At(attr, 10) # 0,
   length |-> DataLength(attr),
   valid |-> SumSeq(SubSeq(attr, 1, 14)) = At(attr, 14) * 256 + At(attr, 15)]

\* the well-formed attribute data tried: the ends of each field's range
\* and values on both sides of a byte boundary
AttributeData ==
  [vmajor : {0, 1, 15}, vminor : {0, 15}, nbr : {0, 1, 255}, nbw : {0, 255},
   capacity : {0, 16, 256 * 16, 65535 * 16},
   writing : BOOLEAN, writeable : BOOLEAN,
   length : {0, 255, 256, 65536, 16777215}]

\* str(b) of attribute data b, and NdefAttributeData of these bytes
Codec ==
  /\ io = NoIo
  /\ \E b \in AttributeData :
       \E a \in {AttrStr(b.vmajor, b.vminor, b.nbr, b.nbw, b.capacity,
                          b.writing, b.writeable, b.length)} :
         io' = [op |-> "codec", b |-> b, attr |-> a,
                parsed |-> NdefAttributeData(a)]
  /\ UNCHANGED << ndef, emu >>

\* what tt3_recv_response returns when the emulation got the command: the
\* frame send_response handed to the transport, or nothing
Relayed(e) ==
  IF e.st = "rsp" /\ e.frames # <<>> THEN << e.frames[1] >> ELSE None

\* the block lists read or written through the emulation: the short ones
\* and the blocks 1..FullRead
ThroughLists == BlockLists \cup {Range1(FullRead)}

\* Type3Tag.read with the emulation as the tag: the frame it sends is the
\* command send_response handles, no callback refusing
ReadThrough ==
  /\ io = NoIo
  /\ \E blks \in ThroughLists, service \in services :
       \E e \in {send_response(<< Len(ReaderCmd(6, blks, service)) + 1 >>
                                \o ReaderCmd(6, blks, service), 0)} :
         io' = [op |-> "xread", blocks |-> blks, service |-> service,
                calls |-> e.calls, resp |-> Relayed(e),
                got |-> ReadCall(blks, service, TRUE, Relayed(e))]
  /\ UNCHANGED << ndef, emu >>

\* Type3Tag.write with the emulation as the tag
WriteThrough ==
  /\ io = NoIo
  /\ \E blks \in BlockLists, service \in services :
       \E e \in {send_response(<< Len(ReaderCmd(8, blks, service))
                                   + 16 * Len(blks) + 1 >>
                                \o ReaderCmd(8, blks, service)
                                \o Payload(16 * Len(blks)), 0)} :
         io' = [op |-> "xwrite", blocks |-> blks, service |-> service,
                calls |-> e.calls, resp |-> Relayed(e),
                got |-> WriteCall(Payload(16 * Len(blks)), blks, service,
                                  TRUE, Relayed(e))]
  /\ UNCHANGED << ndef, emu >>

InitIo ==
  /\ NdefOff
  /\ EmuInit
  /\ io = NoIo

NextIo ==
  \/ ReadBlocks
  \/ WriteBlocks
  \/ Codec
  \/ ReadThrough
  \/ WriteThrough

\* a reader calling Type3Tag.read and Type3Tag.write, over a transport of
\* any behaviour or with the emulation as the tag, and the codec of the
\* attribute block
SpecIo == InitIo /\ [][NextIo]_vars

\* ----------------------------------------------- what the properties read

IsWrite(e) == e.op = "write"

\* the write commands of the current operation, in the order sent
Writes == SelectSeq(log, IsWrite)

\* the commands of the current operation after the read of block 0 that
\* NDEF.attr sends when nothing is cached
AfterAttr == IF res.cached \/ log = <<>> THEN log ELSE Tail(log)

RECURSIVE BlocksOf(_)
\* the block numbers a sequence of commands names, in order
BlocksOf(es) == IF es = <<>> THEN <<>> ELSE es[1].blocks \o BlocksOf(Tail(es))

RECURSIVE DataOf(_)
\* the data a sequence of commands carries or returned, in order
DataOf(es) == IF es = <<>> THEN <<>> ELSE es[1].data \o DataOf(Tail(es))

\* ceil(a / b)
CeilDiv(a, b) == (a + b - 1) \div b

\* the last operation was a set that returned
SetReturned == pc = "idle" /\ res.op = "set" /\ res.st = "ok"

\* the last operation was a get that returned
GetReturned == pc = "idle" /\ res.op = "get" /\ res.st = "ok"

\* ------------------------------------------------------------------ C1

\* C1: in a set that passed its checks, the first write command names
\* block 0 alone and carries the flag 0x0F and the new length; a write that
\* names block 0 again is the last one, carries the flag 0x00 and comes
\* after the writes of all the data blocks 1..ceil(len/16); every other write
\* names data blocks only; a set that returns has sent that last write.
C1_WriteOrder ==
  (res.op = "set" /\ Writes # <<>>) =>
    LET W == Writes
        B == NBlocks(Len(res.val))
    IN  /\ W[1].blocks = << 0 >>
        /\ At(W[1].data, 9) = 15
        /\ AttrLength(W[1].data) = Len(res.val)
        /\ \A i \in 2..Len(W) :
             IF \E j \in 1..Len(W[i].blocks) : W[i].blocks[j] = 0
             THEN /\ W[i].blocks = << 0 >>
                  /\ At(W[i].data, 9) = 0
                  /\ i = Len(W)
                  /\ pc = "idle"
                  /\ BlocksOf(SubSeq(W, 2, i - 1)) = Range1(B)
             ELSE \A j \in 1..Len(W[i].blocks) : W[i].blocks[j] \in 1..B
        /\ res.st = "ok" => Len(W) >= 2 /\ W[Len(W)].blocks = << 0 >>

\* a set returned after at least two data writes
C1_Witness == SetReturned /\ Len(Writes) >= 4

\* ------------------------------------------------------------------ C2

\* C2: whenever the tag's write-in-progress byte is 0x00, the message its
\* length and data blocks describe is the tag's first message or a message
\* one set operation was given, whole; a torn message is on the tag only
\* under the flag 0x0F.
C2_TornDetectable ==
  At(tag[0], 9) = 0 => TagMessage(tag) \in hist

\* a set of a message of CapBlocks blocks wrote its last data block and did
\* not return; the set after it, of a shorter message, returned
C2_Witness ==
  /\ SetReturned
  /\ nops = 2
  /\ prev = <<>>
  /\ tag[CapBlocks] = TagHolding(tag[0], Msg(CapBlocks * BlockSize, 1))[CapBlocks]
  /\ NBlocks(Len(res.val)) < CapBlocks
  /\ At(tag[0], 9) = 0

\* ------------------------------------------------------------------ C3

\* the last operation was a set on a tag that is not writeable, or of a
\* message beyond the tag's capacity
SetAgainstPolicy ==
  /\ pc = "idle"
  /\ res.op = "set"
  /\ At(tag[0], 10) = 0 \/ Len(res.val) > Capacity(tag[0])

\* C3 as claimed: such a set fails and makes no transport call at all.
C3_ZeroTransport ==
  SetAgainstPolicy => res.st = "err" /\ log = <<>>

\* C3 as amended: such a set fails and sends no write command; with the
\* attribute block cached it makes no transport call, and with the cache
\* empty it sends one command, a read of block 0 alone.
C3_NoWrite ==
  SetAgainstPolicy =>
    /\ res.st = "err"
    /\ Writes = <<>>
    /\ res.cached => log = <<>>
    /\ ~res.cached =>
         /\ Len(log) = 1
         /\ log[1].op = "read"
         /\ log[1].blocks = << 0 >>

\* a set was refused as "tag writing disabled" after it read block 0
C3_Witness ==
  /\ SetAgainstPolicy
  /\ res.err = "disabled"
  /\ ~res.cached
  /\ Len(log) = 1

\* ------------------------------------------------------------------ C4

C5_WriteChunks ==
  SetReturned =>
    LET W == SubSeq(Writes, 2, Len(Writes) - 1)
        B == NBlocks(Len(res.val))
        L == At(tag[0], 2)
    IN  /\ L > 0 => Len(W) = CeilDiv(B, L)
        /\ \A i \in 1..Len(W) : Len(W[i].blocks) <= L
        /\ BlocksOf(W) = Range1(B)
        /\ DataOf(W) = Pad(res.val)

\* a set of three blocks returned on a tag with nbw = 2
C5_Witness ==
  /\ SetReturned
  /\ At(tag[0], 2) = 2
  /\ NBlocks(Len(res.val)) = 3
  /\ Len(Writes) = 4

\* ------------------------------------------------------------------ C6

\* C6: a get that returns, on a tag whose attribute block gives the length
\* n and the read limit nbr, has sent read commands that name at most nbr
\* blocks each and together the blocks 1..ceil(n/16) in ascending order once
\* each, and returns the data they returned, cut to n bytes.
C6_ReadChunks ==
  GetReturned =>
    LET R == AfterAttr
        n == AttrLength(tag[0])
    IN  /\ \A i \in 1..Len(R) : Len(R[i].blocks) <= At(tag[0], 1)
        /\ BlocksOf(R) = Range1(NBlocks(n))
        /\ res.val = Take(DataOf(R), n)
        /\ Len(res.val) = n

\* ------------------------------------------------------------------ C7

\* C7: once a read of block 0 returned a block whose checksum is wrong, the
\* operation has failed and no further command was sent.
C7_ChecksumFatal ==
  \A i \in 1..Len(log) :
    (log[i].op = "read" /\ log[i].blocks = << 0 >> /\ log[i].st = "ok"
       /\ ~ChecksumOk(log[i].data)) =>
      /\ i = Len(log)
      /\ pc \in {"dead", "idle"}
      /\ pc = "idle" => res.st = "err"

\* ------------------------------------------------------------------ C8

\* C8: between operations a cached attribute block equals the tag's block
\* 0, and after a get or set that sent a command nothing is cached.
C8_CacheFresh ==
  pc = "idle" =>
    /\ _attr # None => _attr = tag[0]
    /\ (res.op \in {"get", "set"} /\ log # <<>>) => _attr = None

\* ------------------------------------------------------------------ C9

\* send_response has handled the read or write command of the reader
Handled ==
  /\ req.code \in {6, 8}
  /\ req.idm = Idm
  /\ cmd = None \/ raised

\* the service code entry k of the reader's block list refers to
CodeOf(k) == req.svcs[req.ents[k].idx + 1]

\* the reader's command is whole and parses: registered service codes,
\* service indices inside the service list, a payload of whole blocks
Parses ==
  /\ req.cut = 0
  /\ \A k \in 1..Len(req.svcs) : req.svcs[k] \in services
  /\ \A k \in 1..Len(req.ents) : req.ents[k].idx < Len(req.svcs)
  /\ Len(req.payload) % BlockSize = 0

\* C9: for a handled read or write command that parses, with no callback
\* refusing, the callbacks are invoked once per block list entry in list
\* order with the entry's block number; begin is true on exactly the first
\* entry that refers to a service code and end on exactly the last one.
C9_BeginEnd ==
  (Handled /\ Parses /\ req.fail = 0) =>
    /\ Len(calls) = Len(req.ents)
    /\ \A k \in 1..Len(calls) :
         /\ calls[k].code = CodeOf(k)
         /\ calls[k].block = req.ents[k].block
         /\ calls[k].begin = (\A j \in 1..(k - 1) : CodeOf(j) # CodeOf(k))
         /\ calls[k].end = (\A j \in (k + 1)..Len(calls) :
                              CodeOf(j) # CodeOf(k))

\* ----------------------------------------------------------------- C10

\* the frame of the reader's command holds a service code that is not
\* registered
NamesUnknown ==
  \E k \in 1..Len(req.svcs) :
    /\ req.svcs[k] \notin services
    /\ 1 + 2 * k <= Len(CmdData(req)) - req.cut

\* C10: a handled read or write command whose service list holds a service
\* code that is not registered was answered with the status bytes 0xFF,
\* 0xA1, and no callback was invoked for it.
C10_UnknownService ==
  (Handled /\ NamesUnknown) =>
    /\ ~raised
    /\ rsp = << << 12, req.code + 1 >> \o Idm \o << 255, 161 >> >>
    /\ calls = <<>>

\* a write command naming a registered service, then one that is not
\* registered, and a block of the registered one, was handled
C10_Witness ==
  /\ Handled
  /\ req.code = 8
  /\ req.svcs = << 11, Unregistered >>
  /\ Len(req.ents) = 1
  /\ req.ents[1].idx = 0
  /\ Len(req.payload) = BlockSize
  /\ rsp # <<>>

\* ----------------------------------------------------------------- C11

\* C11: a handled write command whose service list and block list parse,
\* and whose payload is not a multiple of 16 bytes long, was answered with
\* the status bytes 0xFF, 0xA2, and no callback was invoked for it.
C11_PayloadLength ==
  (/\ Handled
   /\ req.code = 8
   /\ req.cut = 0
   /\ \A k \in 1..Len(req.svcs) : req.svcs[k] \in services
   /\ \A k \in 1..Len(req.ents) : req.ents[k].idx < Len(req.svcs)
   /\ Len(req.payload) % 16 # 0) =>
    /\ ~raised
    /\ rsp = << << 12, 9 >> \o Idm \o << 255, 162 >> >>
    /\ calls = <<>>

\* a write command of two blocks of two services with a payload of 33
\* bytes was handled
C11_Witness ==
  /\ Handled
  /\ req.code = 8
  /\ req.svcs = << 9, 11 >>
  /\ Len(req.ents) = 2
  /\ req.ents[1].idx = 1
  /\ req.ents[2].idx = 0
  /\ Len(req.payload) = 2 * BlockSize + 1
  /\ rsp # <<>>

\* ----------------------------------------------------------------- C12

\* C12: every write callback invoked for a handled write command was given
\* 16 bytes, the bytes 16*i .. 16*i+15 of the command's payload for entry i
\* of the block list (counted from 0).
C12_Chunk16 ==
  (Handled /\ req.code = 8) =>
    \A k \in 1..Len(calls) :
      /\ Len(calls[k].data) = 16
      /\ calls[k].data = SubSeq(req.payload, 16 * (k - 1) + 1, 16 * k)

\* ----------------------------------------------------------------- C13

\* C13: send_response never raises on a frame wait_command returned, and
\* hands at most one frame to the transport for it.
C13_NeverRaises ==
  /\ ~raised
  /\ Len(rsp) <= 1

\* ----------------------------------------------------------------- C14

\* C14: at most one frame was handed to the transport for a command; a
\* command in the slot has not been handled yet, so that the slot is empty
\* once send_response ran and no command is handled twice; a command with
\* the code 0x04, 0x06, 0x08 or 0x0C and another tag's identifier got no
\* response and no callback.
C14_SingleSlot ==
  /\ Len(rsp) <= 1
  /\ cmd # None => (rsp = <<>> /\ calls = <<>> /\ ~raised)
  /\ (req.code \in {4, 6, 8, 12} /\ req.idm # Idm) =>
       (rsp = <<>> /\ calls = <<>>)

\* ----------------------------------------------------------------- C15

\* the call was of Type3Tag.read or Type3Tag.write with arguments it takes
Called == io.op \in {"read", "write"} /\ io.got.st # "value"

\* the response's length byte, code and identifier are right
HeaderOk ==
  /\ io.resp # None
  /\ Len(io.resp[1]) >= 10
  /\ io.resp[1][1] = Len(io.resp[1])
  /\ io.resp[1][2] = io.code
  /\ SubSeq(io.resp[1], 3, 10) = Idm

\* the response has two status bytes and both are zero
StatusOk ==
  /\ Len(io.resp[1]) >= 12
  /\ io.resp[1][11] = 0
  /\ io.resp[1][12] = 0

\* C15: a call returns only if the command was sent, a response came, its
\* length byte, code and identifier are right and both status bytes are
\* zero; otherwise it raises a transport error (not sent, no response), a
\* framing error (malformed response) or a command error (status), and
\* returns no data.
C15_Validation ==
  Called =>
    /\ io.got.st = "ok" <=> (io.send /\ HeaderOk /\ StatusOk)
    /\ io.got.st # "ok" => io.got.out = <<>>
    /\ io.got.st \in {"ok", "send", "recv", "data", "cmd"}
    /\ ~io.send => io.got.st = "send"
    /\ (io.send /\ io.resp = None) => io.got.st = "recv"
    /\ (io.send /\ io.resp # None /\ ~HeaderOk) => io.got.st = "data"
    /\ (io.send /\ HeaderOk /\ ~StatusOk) => io.got.st \in {"data", "cmd"}

\* ----------------------------------------------------------------- C16

\* C16: Type3Tag.write called with data whose length is not 16 times the
\* number of blocks raised the argument error, handed no command to
\* tt3_send_command and did not call tt3_recv_response.
C16_LengthFirst ==
  (io.op = "write" /\ Len(io.data) # 16 * Len(io.blocks)) =>
    /\ io.got.st = "value"
    /\ io.got.sent = <<>>
    /\ io.got.recvs = 0

\* a write of two blocks with 33 bytes of data was called, with a transport
\* that would have sent the command and returned a good response
C16_Witness ==
  /\ io.op = "write"
  /\ Len(io.blocks) = 2
  /\ Len(io.data) = 2 * BlockSize + 1
  /\ io.send
  /\ io.resp = << Good(9, <<>>) >>

\* ----------------------------------------------------------------- C17

\* C17: a command that failed (not sent, no response, a malformed response
\* or a non-zero status) is the last command of its operation, and the
\* operation has failed: nothing is repeated and nothing is written again.
C17_NoRetry ==
  \A i \in 1..Len(log) :
    log[i].st # "ok" =>
      /\ i = Len(log)
      /\ pc \in {"idle", "dead"}
      /\ pc = "idle" => res.st = "err"

\* a set failed at a write of data blocks, after it wrote block 0 and other
\* data blocks, because the tag answered with a non-zero status
C17_Witness ==
  /\ pc = "idle"
  /\ res.op = "set"
  /\ res.st = "err"
  /\ Len(Writes) >= 3
  /\ log[Len(log)].op = "write"
  /\ log[Len(log)].st = "cmd"
  /\ log[Len(log)].blocks # << 0 >>

\* ----------------------------------------------------------------- C18

\* C18: the bytes of well-formed attribute data b are 16, end with the sum
\* of the first 14, carry the writing flag as 0x0F or 0x00, and read back
\* as b: the same version, nbr, nbw, capacity, writing, writeable, length.
C18_RoundTrip ==
  io.op = "codec" =>
    /\ Len(io.attr) = 16
    /\ At(io.attr, 14) * 256 + At(io.attr, 15) = SumSeq(SubSeq(io.attr, 1, 14))
    /\ io.parsed.valid
    /\ At(io.attr, 9) = (IF io.b.writing THEN 15 ELSE 0)
    /\ \A i \in 0..15 : At(io.attr, i) \in 0..255
    /\ [f \in DOMAIN io.b |-> io.parsed[f]] = io.b

\* attribute data with every field at the end of its range went through
C18_Witness ==
  /\ io.op = "codec"
  /\ io.b = [vmajor |-> 15, vminor |-> 15, nbr |-> 255, nbw |-> 255,
             capacity |-> 65535 * 16, writing |-> TRUE, writeable |-> TRUE,
             length |-> 16777215]
  /\ io.parsed.length = 16777215

\* ----------------------------------------------------------------- C19

\* C19: every get and every set that started comes to an end: it returns
\* or fails.
C19_Terminates ==
  (pc \in {"get_loop", "set_attr", "set_loop", "set_end"}) ~> (pc = "idle")

\* ----------------------------------------------------------------- C20

\* C20: for a read or write of a registered service sent to the emulation,
\* the callbacks invoked are those of that service, one for each block
\* number of the call, in the same order; a read response with the status
\* 0, 0 is accepted by the reader, which returns the callbacks' data in
\* that order.
C20_Addressing ==
  io.op \in {"xread", "xwrite"} =>
    /\ Len(io.calls) = Len(io.blocks)
    /\ \A k \in 1..Len(io.calls) :
         /\ io.calls[k].op = (IF io.op = "xread" THEN "read" ELSE "write")
         /\ io.calls[k].code = io.service
         /\ io.calls[k].block = io.blocks[k]
    /\ (/\ io.op = "xread"
        /\ io.resp # None
        /\ SubSeq(io.resp[1], 11, 12) = << 0, 0 >>) =>
         /\ io.got.st = "ok"
         /\ io.got.out = Flat([k \in 1..Len(io.blocks) |->
                                 BlockData(io.service, io.blocks[k])])

\* a read of a block below 256 and one above went through and returned 32
\* bytes
C20_Witness ==
  /\ io.op = "xread"
  /\ io.blocks = << 65535, 255 >>
  /\ io.got.st = "ok"
  /\ Len(io.got.out) = 2 * BlockSize

====
